---------------------------- MODULE Spec2Model ----------------------------
(***************************************************************************)
(* Model of the spacetime visualizer: the RelativisticCalculator           *)
(* (src/src/physics.py), the host window SpaceTimeVisualizer               *)
(* (src/src/ui.py), the PlotManager (src/src/visualizations.py) and the    *)
(* animated clocks TimeDilationClocks (src/src/clock_visualization.py).    *)
(*                                                                         *)
(* Numbers.  The program computes in IEEE doubles.  The model computes the *)
(* same expressions exactly: a value is (a + b*sqrt(d)) / q with integers  *)
(* a, b, q > 0 of arbitrary size and a radicand d that is not a perfect    *)
(* square (d = 1 and b = 0 for a rational).  Every quantity derived from   *)
(* one velocity v = n/1000 lies in Q(sqrt(10^6 - n^2)), so +, -, *, /, and *)
(* the one sqrt the code takes are closed in this representation.  The     *)
(* non-finite doubles numpy produces (inf, nan) are values of kind "inf"   *)
(* and "nan".  Rounding of doubles is not modelled.                        *)
(***************************************************************************)
EXTENDS Integers, Sequences, FiniteSets, TLC

(***************************************************************************)
(* Evaluation order.  Python evaluates an argument once, before the call.  *)
(* Eval(Op, args) does the same for the model: it evaluates the tuple args *)
(* once and then applies Op to the value.                                  *)
(***************************************************************************)
Eval(Op(_), args) == CHOOSE r \in {Op(t) : t \in {args}} : TRUE

VARIABLES
    slider,            \* QSlider value
    mass_input,        \* text of the mass QLineEdit
    mass_error_label,  \* text of the inline error label
    mass_kg_label,     \* the kilograms the "SI Equivalent" label shows
    slider_label,      \* content of the slider label
    info_label,        \* content of the info panel
    plots,             \* content of the plot items
    clocks,            \* the TimeDilationClocks widget
    last_call,         \* arguments of the latest calls into the calculator
    unhandled,         \* an exception that left a Qt slot uncaught, or "none"
    returned,          \* what validate_mass_input last returned
    launcher,          \* where the launcher's main() stands, and what it did
    calc               \* the calculator called on its own (CalcSpec)

(***************************************************************************)
(* Natural numbers of arbitrary size: little-endian sequences of limbs     *)
(* below BASE, without leading zero limbs (zero is the empty sequence).    *)
(***************************************************************************)
BASE == 100 * 100

NFromInt(n) ==
    IF n = 0 THEN << >>
    ELSE IF n < BASE THEN <<n>>
    ELSE IF n < BASE * BASE THEN <<n % BASE, n \div BASE>>
    ELSE <<n % BASE, (n \div BASE) % BASE, n \div (BASE * BASE)>>

\* the limbs of x without its leading zeros
NStripOn(x) ==
    LET nz == {i \in 1..Len(x) : x[i] # 0}
    IN  IF nz = {} THEN << >>
        ELSE SubSeq(x, 1, CHOOSE i \in nz : \A j \in nz : j <= i)

NStrip(x) == Eval(NStripOn, x)

\* t = <<x, y, c>>: x + y + c, limb by limb with the carry c
RECURSIVE NAddOn(_)
NAddOn(t) ==
    IF t[1] = << >> THEN (IF t[3] = 0 THEN t[2] ELSE Eval(NAddOn, <<t[2], <<t[3]>>, 0>>))
    ELSE IF t[2] = << >> THEN (IF t[3] = 0 THEN t[1] ELSE Eval(NAddOn, <<t[1], <<t[3]>>, 0>>))
    ELSE <<(t[1][1] + t[2][1] + t[3]) % BASE>>
         \o Eval(NAddOn, <<Tail(t[1]), Tail(t[2]), (t[1][1] + t[2][1] + t[3]) \div BASE>>)

NAdd(x, y) == Eval(NAddOn, <<x, y, 0>>)

\* t = <<x, y, b>>: x - y - b for x >= y + b, limb by limb with the borrow b
RECURSIVE NSubOn(_)
NSubOn(t) ==
    IF t[2] = << >> /\ t[3] = 0 THEN t[1]
    ELSE LET yd == IF t[2] = << >> THEN 0 ELSE t[2][1]
             yt == IF t[2] = << >> THEN << >> ELSE Tail(t[2])
             s  == t[1][1] - yd - t[3]
         IN  IF s < 0 THEN <<s + BASE>> \o Eval(NSubOn, <<Tail(t[1]), yt, 1>>)
                      ELSE <<s>> \o Eval(NSubOn, <<Tail(t[1]), yt, 0>>)

NSub(x, y) == NStrip(Eval(NSubOn, <<x, y, 0>>))

\* t = <<x, y>>: -1, 0 or 1 as x <, =, > y
NCmpOn(t) ==
    IF Len(t[1]) < Len(t[2]) THEN -1
    ELSE IF Len(t[1]) > Len(t[2]) THEN 1
    ELSE LET df == {i \in 1..Len(t[1]) : t[1][i] # t[2][i]}
         IN  IF df = {} THEN 0
             ELSE LET i == CHOOSE i \in df : \A j \in df : j <= i
                  IN  IF t[1][i] < t[2][i] THEN -1 ELSE 1

NCmp(x, y) == Eval(NCmpOn, <<x, y>>)

\* t = <<x, k, c>>: x * k + c for one limb k and a carry c < BASE
RECURSIVE NMulLimbOn(_)
NMulLimbOn(t) ==
    IF t[1] = << >> THEN (IF t[3] = 0 THEN << >> ELSE <<t[3]>>)
    ELSE <<(t[1][1] * t[2] + t[3]) % BASE>>
         \o Eval(NMulLimbOn, <<Tail(t[1]), t[2], (t[1][1] * t[2] + t[3]) \div BASE>>)

NMulLimb(x, k, c) == IF k = 0 THEN NFromInt(c) ELSE Eval(NMulLimbOn, <<x, k, c>>)

\* t = <<x, y>>: x * y, a limb of x at a time
RECURSIVE NMulOn(_)
NMulOn(t) ==
    IF t[1] = << >> \/ t[2] = << >> THEN << >>
    ELSE IF Len(t[1]) = 1 THEN NMulLimb(t[2], t[1][1], 0)
    ELSE LET rest == Eval(NMulOn, <<Tail(t[1]), t[2]>>)
         IN  Eval(NAddOn, <<NMulLimb(t[2], t[1][1], 0),
                            IF rest = << >> THEN << >> ELSE <<0>> \o rest, 0>>)

NMul(x, y) == Eval(NMulOn, <<x, y>>)

\* the machine integer of a number below BASE^2
NToIntOn(x) ==
    IF x = << >> THEN 0
    ELSE IF Len(x) = 1 THEN x[1]
    ELSE x[1] + BASE * x[2]

NToInt(x) == Eval(NToIntOn, x)

(***************************************************************************)
(* Integers of arbitrary size: sign and magnitude (zero is not negative).  *)
(***************************************************************************)
ZMakeOn(t) == [neg |-> t[1] /\ t[2] # << >>, mag |-> t[2]]

ZMake(neg, mag) == Eval(ZMakeOn, <<neg, mag>>)

ZFromInt(n) == IF n < 0 THEN ZMake(TRUE, NFromInt(-n)) ELSE ZMake(FALSE, NFromInt(n))

Z0 == [neg |-> FALSE, mag |-> << >>]
Z1 == [neg |-> FALSE, mag |-> <<1>>]
N1 == <<1>>

ZNegOn(x) == [neg |-> ~x.neg /\ x.mag # << >>, mag |-> x.mag]

ZNeg(x) == Eval(ZNegOn, x)

ZAddOn(t) ==
    IF t[1].neg = t[2].neg THEN ZMake(t[1].neg, NAdd(t[1].mag, t[2].mag))
    ELSE IF NCmp(t[1].mag, t[2].mag) >= 0 THEN ZMake(t[1].neg, NSub(t[1].mag, t[2].mag))
    ELSE ZMake(t[2].neg, NSub(t[2].mag, t[1].mag))

ZAdd(x, y) == Eval(ZAddOn, <<x, y>>)

ZSub(x, y) == Eval(ZAddOn, <<x, ZNeg(y)>>)

ZMulOn(t) == ZMake(t[1].neg # t[2].neg, NMul(t[1].mag, t[2].mag))

ZMul(x, y) == Eval(ZMulOn, <<x, y>>)

ZMulNOn(t) == IF t[2] = <<1>> THEN t[1] ELSE ZMake(t[1].neg, NMul(t[1].mag, t[2]))

ZMulN(x, n) == Eval(ZMulNOn, <<x, n>>)

\* -1, 0 or 1: the sign of x
ZSignOn(x) == IF x.mag = << >> THEN 0 ELSE IF x.neg THEN -1 ELSE 1

ZSign(x) == Eval(ZSignOn, x)

(***************************************************************************)
(* Float values, computed exactly: (a + b*sqrt(d)) / q, or "inf" / "nan".  *)
(***************************************************************************)
RMakeOn(t) ==
    [k |-> "fin", a |-> t[1], b |-> t[2], q |-> t[3], d |-> IF t[2] = Z0 THEN 1 ELSE t[4]]

RMake(a, b, q, d) == Eval(RMakeOn, <<a, b, q, d>>)

\* the float of the rational n / m (m > 0), e.g. a literal such as 0.05 = 5/100
RRat(n, m) == [k |-> "fin", a |-> ZFromInt(n), b |-> Z0, q |-> NFromInt(m), d |-> 1]

RInt(n) == RRat(n, 1)

Inf == [k |-> "inf", a |-> Z0, b |-> Z0, q |-> N1, d |-> 1]
NaN == [k |-> "nan", a |-> Z0, b |-> Z0, q |-> N1, d |-> 1]

Radicand(x, y) == IF x.b # Z0 THEN x.d ELSE y.d

\* the sign of a + b*sqrt(d): -1, 0 or 1
RSignOn(x) ==
    LET sa == ZSignOn(x.a)
        sb == ZSignOn(x.b)
    IN  IF sb = 0 THEN sa
        ELSE IF sa = 0 \/ sa = sb THEN sb
        ELSE IF NCmp(NMul(x.a.mag, x.a.mag),
                     NMul(NMul(x.b.mag, x.b.mag), NFromInt(x.d))) > 0 THEN sa ELSE sb

RSign(x) == Eval(RSignOn, x)

\* t = <<x, y, s>>: x + y (s = 1) or x - y (s = -1) for finite x and y
RAddFinite(t) ==
    LET x == t[1]
        y == IF t[3] = 1 THEN t[2] ELSE [t[2] EXCEPT !.a = ZNegOn(t[2].a), !.b = ZNegOn(t[2].b)]
    IN  IF x.q = y.q
        THEN RMake(ZAdd(x.a, y.a), ZAdd(x.b, y.b), x.q, Radicand(x, y))
        ELSE RMake(ZAdd(ZMulN(x.a, y.q), ZMulN(y.a, x.q)),
                   ZAdd(ZMulN(x.b, y.q), ZMulN(y.b, x.q)),
                   NMul(x.q, y.q), Radicand(x, y))

RAddOn(t) ==
    IF t[1].k = "nan" \/ t[2].k = "nan" THEN NaN
    ELSE IF t[1].k = "inf" \/ t[2].k = "inf" THEN Inf
    ELSE RAddFinite(<<t[1], t[2], 1>>)

RAdd(x, y) == Eval(RAddOn, <<x, y>>)

RSubOn(t) ==
    IF t[1].k = "nan" \/ t[2].k = "nan" THEN NaN
    ELSE IF t[2].k = "inf" THEN NaN
    ELSE IF t[1].k = "inf" THEN Inf
    ELSE RAddFinite(<<t[1], t[2], -1>>)

RSub(x, y) == Eval(RSubOn, <<x, y>>)

RMulOn(t) ==
    LET x == t[1]
        y == t[2]
    IN  IF x.k = "nan" \/ y.k = "nan" THEN NaN
        ELSE IF x.k = "inf" THEN (IF y.k = "fin" /\ RSignOn(y) = 0 THEN NaN ELSE Inf)
        ELSE IF y.k = "inf" THEN (IF RSignOn(x) = 0 THEN NaN ELSE Inf)
        ELSE IF x.b = Z0 /\ y.b = Z0
        THEN RMake(ZMul(x.a, y.a), Z0, NMul(x.q, y.q), 1)
        ELSE RMake(ZAdd(ZMul(x.a, y.a), ZMulN(ZMul(x.b, y.b), NFromInt(Radicand(x, y)))),
                   ZAdd(ZMul(x.a, y.b), ZMul(x.b, y.a)),
                   NMul(x.q, y.q), Radicand(x, y))

RMul(x, y) == Eval(RMulOn, <<x, y>>)

\* t = <<a, b, q, d>> with an integer q # 0: the value (a + b*sqrt(d)) / q
RMakeSigned(t) ==
    IF t[3].neg THEN RMake(ZNegOn(t[1]), ZNegOn(t[2]), t[3].mag, t[4])
                ELSE RMake(t[1], t[2], t[3].mag, t[4])

\* 1 / x with numpy's float64 division: 1/0 is inf (a RuntimeWarning, no exception)
RInvOn(x) ==
    IF x.k = "nan" THEN NaN
    ELSE IF x.k = "inf" THEN RInt(0)
    ELSE IF RSignOn(x) = 0 THEN Inf
    ELSE IF x.b = Z0 THEN \* q / a
         RMake(ZMake(x.a.neg, x.q), Z0, x.a.mag, 1)
    ELSE IF x.a = Z0 THEN \* q / (b*sqrt(d)) = q*sqrt(d) / (b*d)
         RMake(Z0, ZMake(x.b.neg, x.q), NMul(x.b.mag, NFromInt(x.d)), x.d)
    ELSE \* q*(a - b*sqrt(d)) / (a^2 - b^2*d)
         Eval(RMakeSigned,
              <<ZMulN(x.a, x.q), ZNeg(ZMulN(x.b, x.q)),
                ZSub(ZMul(x.a, x.a), ZMulN(ZMul(x.b, x.b), NFromInt(x.d))), x.d>>)

RInv(x) == Eval(RInvOn, x)

RDiv(x, y) == RMul(x, RInv(y))

\* t = <<n, lo, hi>>: floor of the square root of a machine integer n,
\* by bisection on lo <= r < hi
RECURSIVE ISqrtIn(_)
ISqrtIn(t) ==
    IF t[3] - t[2] <= 1 THEN t[2]
    ELSE IF ((t[2] + t[3]) \div 2) * ((t[2] + t[3]) \div 2) <= t[1]
         THEN Eval(ISqrtIn, <<t[1], (t[2] + t[3]) \div 2, t[3]>>)
         ELSE Eval(ISqrtIn, <<t[1], t[2], (t[2] + t[3]) \div 2>>)

ISqrt(n) == Eval(ISqrtIn, <<n, 0, 46341>>)

\* t = <<a, ra, rq>>: sqrt(a) / rq for ra = floor(sqrt(a))
RSqrtParts(t) ==
    IF t[2] * t[2] = t[1] THEN RRat(t[2], t[3])
    ELSE RMake(Z0, Z1, NFromInt(t[3]), t[1])

\* sqrt of a rational x = a/q >= 0 whose q is a perfect square (here q = 1000^2);
\* "neg" when x < 0, which np.sqrt turns into nan and math.sqrt into ValueError
RSqrtOn(x) ==
    IF x.k # "fin" THEN x
    ELSE IF RSignOn(x) < 0 THEN [NaN EXCEPT !.k = "neg"]
    ELSE Eval(RSqrtParts, <<NToIntOn(x.a.mag), ISqrt(NToIntOn(x.a.mag)), ISqrt(NToIntOn(x.q))>>)

RSqrtCore(x) == Eval(RSqrtOn, x)

NegToNaN(r) == IF r.k = "neg" THEN NaN ELSE r

\* np.sqrt
NpSqrt(x) == Eval(NegToNaN, RSqrtCore(x))

\* the numerator of x^2 * q^2 for a pure surd or a rational x, times n
SquareTimes(x, n) ==
    IF x.b = Z0 THEN NMul(NMul(x.a.mag, x.a.mag), n)
    ELSE NMul(NMul(NMul(x.b.mag, x.b.mag), NFromInt(x.d)), n)

\* t = <<x, y, sx, sy>>: the order of two values over different radicands,
\* each a rational multiple of its square root (all the program produces),
\* from their signs sx, sy and their squares
RCmpSurds(t) ==
    IF t[3] # t[4] THEN (IF t[3] < t[4] THEN -1 ELSE 1)
    ELSE t[3] * NCmp(SquareTimes(t[1], NMul(t[2].q, t[2].q)),
                     SquareTimes(t[2], NMul(t[1].q, t[1].q)))

\* t = <<x, y>>, both finite: -1, 0 or 1 as x < y, x = y or x > y
RCmpOn(t) ==
    IF t[1].b = Z0 \/ t[2].b = Z0 \/ t[1].d = t[2].d
    THEN RSign(RAddFinite(<<t[1], t[2], -1>>))
    ELSE Eval(RCmpSurds, <<t[1], t[2], RSignOn(t[1]), RSignOn(t[2])>>)

\* x = y as real numbers
REqOn(t) == t[1].k = t[2].k /\ (t[1].k = "fin" => RCmpOn(t) = 0)

REq(x, y) == Eval(REqOn, <<x, y>>)

\* x < y and x <= y (a comparison with nan is false; inf is above every
\* finite value)
RLessOn(t) ==
    IF t[1].k = "nan" \/ t[2].k = "nan" \/ t[1].k = "inf" THEN FALSE
    ELSE IF t[2].k = "inf" THEN TRUE
    ELSE RCmpOn(t) < 0

RLess(x, y) == Eval(RLessOn, <<x, y>>)

RLeqOn(t) ==
    IF t[1].k = "nan" \/ t[2].k = "nan" THEN FALSE
    ELSE IF t[2].k = "inf" THEN TRUE
    ELSE IF t[1].k = "inf" THEN FALSE
    ELSE RCmpOn(t) <= 0

RLeq(x, y) == Eval(RLeqOn, <<x, y>>)

(***************************************************************************)
(* RelativisticCalculator (src/src/physics.py)                             *)
(***************************************************************************)
SPEED_OF_LIGHT == 299792458

\* variants of the calculator's methods, each with one step of the formula
\* left out: gamma without the reciprocal, time_dilation without it,
\* kinetic energy without the subtraction, the time component not inverted
gamma_no_reciprocal(velocity_ratio) ==
    Eval(LAMBDA v : NpSqrt(RSub(RInt(1), RMul(v, v))), velocity_ratio)

\* a variant that takes the velocity from the slider, not from its argument
gamma_reading_slider(velocity_ratio) ==
    Eval(LAMBDA v : RDiv(RInt(1), NpSqrt(RSub(RInt(1), RMul(v, v)))), RRat(slider, 1000))

\* gamma = 1 / np.sqrt(1 - velocity_ratio**2)
gamma(velocity_ratio) ==
    Eval(LAMBDA v : RDiv(RInt(1), NpSqrt(RSub(RInt(1), RMul(v, v)))), velocity_ratio)

time_dilation_no_reciprocal(velocity_ratio) == gamma(velocity_ratio)

time_dilation(velocity_ratio) == RDiv(RInt(1), gamma(velocity_ratio))

\* a variant with the speed of light not squared
energy_calculations_c_not_squared(rest_mass, velocity_ratio) ==
    Eval(LAMBDA gamma_val :
        Eval(LAMBDA rest_energy :
            [rest_energy    |-> rest_energy,
             total_energy   |-> RMul(rest_energy, gamma_val),
             kinetic_energy |-> RMul(rest_energy, RSub(gamma_val, RInt(1)))],
          RMul(rest_mass, RInt(SPEED_OF_LIGHT))),
      gamma(velocity_ratio))

energy_calculations_no_subtraction(rest_mass, velocity_ratio) ==
    Eval(LAMBDA gamma_val :
        Eval(LAMBDA rest_energy :
            [rest_energy    |-> rest_energy,
             total_energy   |-> RMul(rest_energy, gamma_val),
             kinetic_energy |-> RMul(rest_energy, gamma_val)],
          RMul(rest_mass, RMul(RInt(SPEED_OF_LIGHT), RInt(SPEED_OF_LIGHT)))),
      gamma(velocity_ratio))

energy_calculations(rest_mass, velocity_ratio) ==
    Eval(LAMBDA gamma_val :
        Eval(LAMBDA rest_energy :
            [rest_energy    |-> rest_energy,
             total_energy   |-> RMul(rest_energy, gamma_val),
             kinetic_energy |-> RMul(rest_energy, RSub(gamma_val, RInt(1)))],
          RMul(rest_mass, RMul(RInt(SPEED_OF_LIGHT), RInt(SPEED_OF_LIGHT)))),
      gamma(velocity_ratio))

spacetime_components_not_inverted(velocity_ratio) ==
    Eval(LAMBDA v : [time_component |-> gamma(v), space_component |-> v], velocity_ratio)

spacetime_components(velocity_ratio) ==
    Eval(LAMBDA v :
        Eval(LAMBDA gamma_val :
            [time_component |-> RDiv(RInt(1), gamma_val), space_component |-> v],
          gamma(v)),
      velocity_ratio)

(***************************************************************************)
(* Angles.  An angle is kept as the ray it points along: [x, y] stands for *)
(* the angle theta with (cos theta, sin theta) = (x, y) / |(x, y)|.  So    *)
(* np.arctan2(y, x) is the ray (x, y), and pi/2 - theta is the mirror      *)
(* image of theta in the diagonal, the ray (y, x).                         *)
(***************************************************************************)
NpArctan2(y, x) == [x |-> x, y |-> y]

PiHalfMinus(theta) == Eval(LAMBDA t : [x |-> t.y, y |-> t.x], theta)

\* theta = 0 and theta = pi/2, for theta in (-pi, pi]
IsAngleZero(theta) ==
    Eval(LAMBDA t : t.x.k = "fin" /\ t.y.k = "fin" /\ RSign(t.y) = 0 /\ RSign(t.x) > 0, theta)

IsAnglePiHalf(theta) ==
    Eval(LAMBDA t : t.x.k = "fin" /\ t.y.k = "fin" /\ RSign(t.x) = 0 /\ RSign(t.y) > 0, theta)

\* theta1 < theta2 for angles in [0, pi/2]: tan is increasing there
AngleLess(t1, t2) ==
    Eval(LAMBDA t : RLess(RMul(t[1].y, t[2].x), RMul(t[2].y, t[1].x)), <<t1, t2>>)

\* angle = np.pi/2 - np.arctan2(space_component, time_component)
direction_angle(velocity_ratio) ==
    Eval(LAMBDA c : PiHalfMinus(NpArctan2(c.space_component, c.time_component)),
         spacetime_components(velocity_ratio))

\* the arrow drawn for an angle: the line from the origin to the tip at the
\* given length along the angle, and the two head strokes (20 degrees either
\* side of the reverse bearing, head_size long), which the angle determines
create_arrow_coordinates(angle) ==
    [angle |-> angle, length |-> RInt(1), head_size |-> RRat(1, 10)]

mass_lbs_to_kg(mass_lbs) == RMul(mass_lbs, RRat(45359237, 100000000))

\* a variant that divides by the pounds-to-kilograms factor
mass_kg_to_lbs_inverse(mass_kg) == RDiv(mass_kg, RRat(45359237, 100000000))

mass_kg_to_lbs(mass_kg) == RMul(mass_kg, RRat(220462, 100000))

(***************************************************************************)
(* The mass field (src/src/ui.py, create_mass_input).  Its text is a       *)
(* sequence of characters; the user appends a character, deletes the last  *)
(* one, or replaces the whole text by a pasted one.  The QDoubleValidator  *)
(* (0.0, 1e12, 2 decimals, standard notation) refuses an edit whose result *)
(* it finds Invalid; texts it finds Intermediate (empty, ".", a value      *)
(* above the top with no more digits than the top) stay in the field.      *)
(***************************************************************************)
Digits == {"0", "1", "2", "3", "4", "5", "6", "7", "8", "9"}

DigitOf(c) ==
    CASE c = "0" -> 0 [] c = "1" -> 1 [] c = "2" -> 2 [] c = "3" -> 3
      [] c = "4" -> 4 [] c = "5" -> 5 [] c = "6" -> 6 [] c = "7" -> 7
      [] c = "8" -> 8 [] c = "9" -> 9

IsDigit(c) == c \in Digits

DigitsOf(text) == SelectSeq(text, IsDigit)

CountDots(text) == Cardinality({i \in 1..Len(text) : text[i] = "."})

\* the number of characters after the decimal point (0 without one)
FracLen(text) ==
    IF CountDots(text) = 0 THEN 0
    ELSE Len(text) - (CHOOSE i \in 1..Len(text) : text[i] = ".")

\* t = <<ds, acc>>: the number written acc followed by the digits ds
RECURSIVE NFromDigitsOn(_)
NFromDigitsOn(t) ==
    IF t[1] = << >> THEN t[2]
    ELSE Eval(NFromDigitsOn, <<Tail(t[1]), NMulLimb(t[2], 10, DigitOf(Head(t[1])))>>)

NFromDigits(ds) == Eval(NFromDigitsOn, <<ds, << >> >>)

NPow10(k) ==
    LET low == CASE k % 4 = 0 -> 1 [] k % 4 = 1 -> 10 [] k % 4 = 2 -> 100 [] OTHER -> 1000
    IN  [i \in 1..(k \div 4) |-> 0] \o <<low>>

RPow10(k) == RMake(ZMake(FALSE, NPow10(k)), Z0, N1, 1)

(***************************************************************************)
(* Fixed-point formatting, f"{x:.1f}": the nearest multiple of 10^-decimals *)
(* to a rational x, a tie going to the even neighbour.                      *)
(***************************************************************************)
\* t = <<r, b, lo, hi>> with b*lo <= r < b*hi: the largest k with b*k <= r
RECURSIVE NQuotDigit(_)
NQuotDigit(t) ==
    IF t[4] - t[3] <= 1 THEN t[3]
    ELSE IF NCmp(NMulLimb(t[2], (t[3] + t[4]) \div 2, 0), t[1]) <= 0
         THEN Eval(NQuotDigit, <<t[1], t[2], (t[3] + t[4]) \div 2, t[4]>>)
         ELSE Eval(NQuotDigit, <<t[1], t[2], t[3], (t[3] + t[4]) \div 2>>)

\* t = <<a, b, i, q, r>>: long division of the limbs a[1..i] still to bring
\* down, with quotient q and remainder r so far; the result is <<q, r>>
RECURSIVE NDivOn(_)
NDivBring(t) == Eval(NDivOn, <<t[1], t[2], t[3] - 1, NStrip(<<t[6]>> \o t[4]),
                               NSub(t[5], NMulLimb(t[2], t[6], 0))>>)

NDivDigit(t) == Eval(NDivBring, <<t[1], t[2], t[3], t[4], t[5],
                                  NQuotDigit(<<t[5], t[2], 0, BASE>>)>>)

NDivOn(t) ==
    IF t[3] = 0 THEN <<t[4], t[5]>>
    ELSE Eval(NDivDigit, <<t[1], t[2], t[3], t[4], NStrip(<<t[1][t[3]]>> \o t[5])>>)

\* <<a div b, a mod b>> for b # 0
NDivMod(a, b) == Eval(LAMBDA t : Eval(NDivOn, <<t[1], t[2], Len(t[1]), << >>, << >> >>), <<a, b>>)

\* t = <<quotient and remainder of a by q, q>>: a/q rounded to an integer
NRoundOn(t) ==
    LET n == t[1][1]
        twice == NCmp(NAdd(t[1][2], t[1][2]), t[2])
    IN  IF twice > 0 \/ (twice = 0 /\ n # << >> /\ n[1] % 2 = 1)
        THEN NAdd(n, N1) ELSE n

NRound(a, q) == Eval(NRoundOn, <<NDivMod(a, q), q>>)

\* the number that f"{x:.<decimals>f}" prints for a rational x
PyFormatF(x, decimals) ==
    Eval(LAMBDA t :
        IF t[1].k # "fin" THEN t[1]
        ELSE RMake(ZMake(t[1].a.neg, NRound(NMul(t[1].a.mag, t[2]), t[1].q)), Z0, t[2], 1),
      <<x, NPow10(decimals)>>)

\* Python's float(text) on a text of digits and points: the value, or ValueError
PyFloat(text) ==
    IF CountDots(text) <= 1 /\ DigitsOf(text) # << >>
        /\ \A i \in 1..Len(text) : text[i] \in Digits \cup {"."}
    THEN [ok |-> TRUE,
          val |-> RMake(ZMake(FALSE, NFromDigits(DigitsOf(text))), Z0,
                        NPow10(FracLen(text)), 1)]
    ELSE [ok |-> FALSE, val |-> NaN]

MASS_DECIMALS == 2
MASS_TOP_DIGITS == 13

ValidatorPermits(text) ==
    /\ \A i \in 1..Len(text) : text[i] \in Digits \cup {"."}
    /\ CountDots(text) <= 1
    /\ FracLen(text) <= MASS_DECIMALS
    /\ Len(text) - FracLen(text) - CountDots(text) <= MASS_TOP_DIGITS

(***************************************************************************)
(* TimeDilationClocks and ClockWidget (src/src/clock_visualization.py)     *)
(***************************************************************************)
\* Python's seconds % 12 for seconds >= 0
RECURSIVE PyMod12On(_)
PyMod12On(seconds) ==
    IF RLess(seconds, RInt(12)) THEN seconds
    ELSE Eval(PyMod12On, RSub(seconds, RInt(12)))

PyMod12(seconds) == Eval(PyMod12On, seconds)

\* ClockWidget.update_time: the hand's angle and the digital display
update_time(seconds, dilated) ==
    Eval(LAMBDA s : [angle |-> RMul(PyMod12(s), RInt(30)), seconds |-> s, dilated |-> dilated],
         seconds)

\* a ClockWidget after setup_ui: hand at 0, display "0.00 s"
NewClockWidget == [angle |-> RInt(0), seconds |-> RInt(0), dilated |-> FALSE]

DefaultExplanation == [dilated |-> FALSE, percent |-> RInt(0), rate |-> RInt(0)]

\* TimeDilationClocks.__init__: no time_dilation_factor attribute yet
NewClocks ==
    [has_factor |-> FALSE, time_dilation_factor |-> RInt(0), elapsed_time |-> RInt(0),
     stationary_clock |-> NewClockWidget, moving_clock |-> NewClockWidget,
     explanation |-> DefaultExplanation]

\* a variant without the square root
ClockFactor_no_sqrt(velocity_ratio) ==
    Eval(LAMBDA v : RSub(RInt(1), RMul(v, v)), velocity_ratio)

\* math.sqrt(1 - velocity_ratio**2): a value, or ValueError below zero
ClockFactor(velocity_ratio) ==
    Eval(LAMBDA v : RSqrtCore(RSub(RInt(1), RMul(v, v))), velocity_ratio)

\* a variant that starts the clocks again at every change of velocity
set_velocity_restarting_clocks(c, velocity_ratio) ==
    Eval(LAMBDA f :
        [raised |-> "none",
         clocks |-> [c EXCEPT !.has_factor = TRUE, !.time_dilation_factor = f,
                              !.elapsed_time = RInt(0),
                              !.stationary_clock = NewClockWidget,
                              !.moving_clock = NewClockWidget]],
      ClockFactor(velocity_ratio))

\* TimeDilationClocks.set_velocity; raised is the exception math.sqrt throws
set_velocity(c, velocity_ratio) ==
    Eval(LAMBDA v :
        Eval(LAMBDA f :
            IF f.k = "neg" THEN [raised |-> "ValueError", clocks |-> c]
            ELSE [raised |-> "none",
                  clocks |-> [c EXCEPT
                      !.has_factor = TRUE,
                      !.time_dilation_factor = f,
                      !.explanation =
                          IF RLess(RInt(0), v)
                          THEN [dilated |-> TRUE,
                                percent |-> RMul(v, RInt(100)),
                                rate |-> RMul(f, RInt(100))]
                          ELSE DefaultExplanation]],
          ClockFactor(v)),
      velocity_ratio)

TICK == RRat(5, 100)

\* a variant that shows the undilated time on the moving clock
update_clocks_undilated(c) ==
    Eval(LAMBDA elapsed :
        [c EXCEPT
            !.elapsed_time = elapsed,
            !.stationary_clock = update_time(elapsed, FALSE),
            !.moving_clock =
                IF c.has_factor THEN update_time(elapsed, TRUE) ELSE c.moving_clock],
      RAdd(c.elapsed_time, TICK))

\* TimeDilationClocks.update_clocks, the timer's callback
update_clocks(c) ==
    Eval(LAMBDA elapsed :
        [c EXCEPT
            !.elapsed_time = elapsed,
            !.stationary_clock = update_time(elapsed, FALSE),
            !.moving_clock =
                IF c.has_factor
                THEN update_time(RMul(elapsed, c.time_dilation_factor), TRUE)
                ELSE c.moving_clock],
      RAdd(c.elapsed_time, TICK))

(***************************************************************************)
(* PlotManager.update_plots (src/src/visualizations.py): the markers it    *)
(* sets and the results it returns.  A marker is the point <<x, y>>.       *)
(***************************************************************************)
PlotManager_update_plots(velocity_ratio, mass_kg) ==
    Eval(LAMBDA t :
        LET gamma_val == t[1]
            c         == t[2]
            angle     == t[3]
            energies  == t[4]
            v_percent == t[5]
        IN  [plots |->
                [direction_arrow |-> create_arrow_coordinates(angle),
                 time_marker     |-> <<v_percent, RMul(c.time_component, RInt(100))>>,
                 spacetime_point |-> <<c.time_component, c.space_component>>,
                 lorentz_marker  |-> <<v_percent, gamma_val>>],
             results |->
                [gamma_val |-> gamma_val,
                 time_component |-> c.time_component,
                 space_component |-> c.space_component,
                 angle_from_vertical |-> PiHalfMinus(angle),
                 energies |-> energies]],
      <<gamma(velocity_ratio), spacetime_components(velocity_ratio),
        direction_angle(velocity_ratio), energy_calculations(mass_kg, velocity_ratio),
        RMul(velocity_ratio, RInt(100))>>)

\* PlotManager.__init__: self.velocities = np.linspace(0, 0.99, 1000), the
\* i-th of its points (i from 0), and the ends of the curves that
\* setup_time_dilation_plot and setup_lorentz_plot draw over velocities * 100
CURVE_POINTS == 1000

PlotManager_velocities(i) == RMul(RRat(99, 100), RRat(i, CURVE_POINTS - 1))

CurveLeft == RMul(PlotManager_velocities(0), RInt(100))

CurveRight == RMul(PlotManager_velocities(CURVE_POINTS - 1), RInt(100))

\* the plot items after create_plots (the setup_* methods' initial data)
NewPlots ==
    [direction_arrow |-> create_arrow_coordinates([x |-> RInt(0), y |-> RInt(1)]),
     time_marker     |-> <<RInt(0), RInt(100)>>,
     spacetime_point |-> <<RInt(1), RInt(0)>>,
     lorentz_marker  |-> <<RInt(0), RInt(1)>>]

(***************************************************************************)
(* SpaceTimeVisualizer (src/src/ui.py).  What update_plots puts on the     *)
(* slider label, the info panel and the plot items is a function of the    *)
(* velocity and the mass of that call; the state keeps those two values    *)
(* as the content, and SliderLabelShown, InfoShown and PlotsShown give     *)
(* what is then on screen.                                                 *)
(***************************************************************************)
SLIDER_MIN == 0
SLIDER_MAX == 999

\* a slider without a range
SliderNoClamp(p) == p

\* QSlider.setValue keeps the value within the minimum and maximum set on it
SliderClamp(p) ==
    IF p < SLIDER_MIN THEN SLIDER_MIN ELSE IF p > SLIDER_MAX THEN SLIDER_MAX ELSE p

\* velocity_ratio = self.slider.value() / 1000
VelocityOf(position) == RDiv(RInt(position), RInt(1000))

get_speed_comparisonOn(speed_ms) ==
    IF RLess(speed_ms, RInt(1)) THEN "slower than a snail"
    ELSE IF RLess(speed_ms, RInt(5)) THEN "about walking speed"
    ELSE IF RLess(speed_ms, RInt(15)) THEN "about running speed"
    ELSE IF RLess(speed_ms, RInt(50)) THEN "faster than Usain Bolt"
    ELSE IF RLess(speed_ms, RInt(300)) THEN "faster than a cheetah"
    ELSE IF RLess(speed_ms, RInt(1000)) THEN "faster than a bullet"
    ELSE IF RLess(speed_ms, RInt(8000)) THEN "faster than the Space Station"
    ELSE IF RLess(speed_ms, RInt(30000)) THEN "faster than any spacecraft"
    ELSE "approaching light speed"

get_speed_comparison(speed_ms) == Eval(get_speed_comparisonOn, speed_ms)

get_energy_comparisonOn(energy_joules) ==
    IF RLess(energy_joules, RPow10(6))
    THEN [amount |-> RDiv(energy_joules, RInt(4184)), unit |-> "food Calories"]
    ELSE IF RLess(energy_joules, RPow10(9))
    THEN [amount |-> RDiv(energy_joules, RPow10(6)), unit |-> "kg of TNT"]
    ELSE IF RLess(energy_joules, RPow10(12))
    THEN [amount |-> RDiv(energy_joules, RPow10(9)), unit |-> "tons of TNT"]
    ELSE IF RLess(energy_joules, RPow10(15))
    THEN [amount |-> RDiv(energy_joules, RPow10(12)), unit |-> "kilotons of TNT"]
    ELSE [amount |-> RDiv(energy_joules, RPow10(15)), unit |-> "megatons of TNT"]

get_energy_comparison(energy_joules) == Eval(get_energy_comparisonOn, energy_joules)

\* get_mass_kg: the mass it returns and the SI-equivalent label it leaves
get_mass_kg(text, label) ==
    Eval(LAMBDA f :
        IF f.ok
        THEN Eval(LAMBDA mass_kg : [mass_kg |-> mass_kg, mass_kg_label |-> mass_kg],
                  mass_lbs_to_kg(f.val))
        ELSE [mass_kg |-> RInt(1), mass_kg_label |-> label],
      PyFloat(text))

\* what update_plots writes on the slider label for a velocity
\* a variant that takes the speed in km/s
SliderLabelText_speed_in_km_s(velocity_ratio) ==
    Eval(LAMBDA t :
        [percent |-> t[1], speed_ms |-> t[2], comparison |-> get_speed_comparison(t[2])],
      <<RMul(velocity_ratio, RInt(100)), RMul(velocity_ratio, RRat(SPEED_OF_LIGHT, 1000))>>)

SliderLabelText(velocity_ratio) ==
    Eval(LAMBDA t :
        [percent |-> t[1], speed_ms |-> t[2], comparison |-> get_speed_comparison(t[2])],
      <<RMul(velocity_ratio, RInt(100)), RMul(velocity_ratio, RInt(SPEED_OF_LIGHT))>>)

\* a variant with the factor cut to 2.2
InfoMassLbs_short_factor(mass_kg) == PyFormatF(RMul(mass_kg, RRat(22, 10)), 1)

\* the pounds on the info panel: f"{mass_kg*2.20462:.1f} lbs"
InfoMassLbs(mass_kg) == PyFormatF(RMul(mass_kg, RRat(220462, 100000)), 1)

\* what update_plots writes on the info panel from PlotManager's results r
\* and the mass
InfoTextOn(t) ==
    LET r == t[1]
        mass_kg == t[2]
    IN  [signal_seconds |-> RDiv(RInt(1), r.time_component),
         gamma_val |-> r.gamma_val,
         length_percent |-> RMul(r.time_component, RInt(100)),
         mass_kg |-> mass_kg,
         mass_lbs |-> InfoMassLbs(mass_kg),
         rest_GJ |-> RDiv(r.energies.rest_energy, RPow10(9)),
         total_GJ |-> RDiv(r.energies.total_energy, RPow10(9)),
         kinetic_GJ |-> RDiv(r.energies.kinetic_energy, RPow10(9)),
         comparison |-> get_energy_comparison(r.energies.total_energy)]

InfoText(velocity_ratio, mass_kg) ==
    Eval(InfoTextOn, <<PlotManager_update_plots(velocity_ratio, mass_kg).results, mass_kg>>)

\* the content of a label or of the plot items written by update_plots
Rendered(velocity_ratio, mass_kg) ==
    [set |-> TRUE, velocity_ratio |-> velocity_ratio, mass_kg |-> mass_kg]

\* the content as setup_ui leaves it
NotRendered == [set |-> FALSE, velocity_ratio |-> RInt(0), mass_kg |-> RInt(0)]

\* what is on screen for the contents c of the slider label, the info panel
\* and the plot items
SliderLabelShown(c) == IF c.set THEN SliderLabelText(c.velocity_ratio) ELSE "0% c"
InfoShown(c) == IF c.set THEN InfoText(c.velocity_ratio, c.mass_kg) ELSE ""
PlotsShown(c) ==
    IF c.set THEN PlotManager_update_plots(c.velocity_ratio, c.mass_kg).plots ELSE NewPlots

\* t = <<w, velocity_ratio, m, sv>>: the widgets w, the velocity read from
\* the slider, what get_mass_kg gave and what set_velocity gave
update_plotsOn(t) ==
    LET w == t[1]
        velocity_ratio == t[2]
        m  == t[3]
        sv == t[4]
    IN  IF sv.raised # "none"
        THEN [w EXCEPT !.mass_kg_label = m.mass_kg_label, !.raised = sv.raised]
        ELSE [mass_kg_label |-> m.mass_kg_label,
              clocks |-> sv.clocks,
              slider_label |-> Rendered(velocity_ratio, m.mass_kg),
              plots |-> Rendered(velocity_ratio, m.mass_kg),
              info_label |-> Rendered(velocity_ratio, m.mass_kg),
              last_call |-> [velocity_ratio |-> velocity_ratio, rest_mass |-> m.mass_kg],
              raised |-> "none"]

update_plotsWith(t) ==
    Eval(update_plotsOn, <<t[1], t[2], t[3], set_velocity(t[1].clocks, t[2])>>)

\* SpaceTimeVisualizer.update_plots on the widgets w, for a slider position and
\* a mass text: the widgets it leaves, and the exception that ends it early
update_plots(w, position, text) ==
    Eval(update_plotsWith, <<w, VelocityOf(position), get_mass_kg(text, w.mass_kg_label)>>)

\* a variant without the check for a mass of zero or less
validate_mass_input_no_lower_check(w, e, position, text) ==
    Eval(LAMBDA f :
        IF ~f.ok
        THEN [w |-> w, returned |-> "False", raised |-> "none",
              mass_error_label |->
                  IF text # << >> THEN "Please enter a valid number" ELSE e]
        ELSE IF RLess(RPow10(12), f.val)
        THEN [w |-> w, returned |-> "False", raised |-> "none",
              mass_error_label |-> "Mass must be less than 1e12 lbs"]
        ELSE Eval(LAMBDA u :
                [w |-> [u EXCEPT !.raised = "none"], returned |-> "True",
                 raised |-> "none", mass_error_label |-> ""],
              update_plots(w, position, text)),
      PyFloat(text))

\* a variant that refuses the mass 1e12 itself
validate_mass_input_strict_top(w, e, position, text) ==
    Eval(LAMBDA f :
        IF ~f.ok
        THEN [w |-> w, returned |-> "False", raised |-> "none",
              mass_error_label |->
                  IF text # << >> THEN "Please enter a valid number" ELSE e]
        ELSE IF RLeq(f.val, RInt(0))
        THEN [w |-> w, returned |-> "False", raised |-> "none",
              mass_error_label |-> "Mass must be greater than 0"]
        ELSE IF RLeq(RPow10(12), f.val)
        THEN [w |-> w, returned |-> "False", raised |-> "none",
              mass_error_label |-> "Mass must be less than 1e12 lbs"]
        ELSE Eval(LAMBDA u :
                [w |-> [u EXCEPT !.raised = "none"], returned |-> "True",
                 raised |-> "none", mass_error_label |-> ""],
              update_plots(w, position, text)),
      PyFloat(text))

\* validate_mass_input on the widgets w with error label e, after the text changed
validate_mass_input(w, e, position, text) ==
    LET invalid == [w |-> w, returned |-> "False", raised |-> "none",
                    mass_error_label |->
                        IF text # << >> THEN "Please enter a valid number" ELSE e]
    IN  Eval(LAMBDA f :
            IF ~f.ok THEN invalid
            ELSE IF RLeq(f.val, RInt(0))
            THEN [w |-> w, returned |-> "False", raised |-> "none",
                  mass_error_label |-> "Mass must be greater than 0"]
            ELSE IF RLess(RPow10(12), f.val)
            THEN [w |-> w, returned |-> "False", raised |-> "none",
                  mass_error_label |-> "Mass must be less than 1e12 lbs"]
            ELSE Eval(LAMBDA u :
                    IF u.raised = "ValueError"
                    THEN \* raised inside the try: except ValueError takes it
                         [invalid EXCEPT !.w = [u EXCEPT !.raised = "none"]]
                    ELSE [w |-> [u EXCEPT !.raised = "none"], returned |-> "True",
                          raised |-> u.raised, mass_error_label |-> ""],
                  update_plots(w, position, text)),
          PyFloat(text))

(***************************************************************************)
(* Bounds of the model, and the inputs the actions draw from.              *)
(***************************************************************************)
\* the longest mass text the user types
MaxLen == 2
\* the number of timer ticks followed
MaxTicks == 2

\* the characters typed into the mass field
MassChars == {"0", "."}
\* the texts pasted over the whole field
\* "1" followed by k zeros
Pow10Text(k) == <<"1">> \o [i \in 1..k |-> "0"]

\* pasted: 2, the largest mass accepted (1e12) and the next mass above it
PastedTexts ==
    {<<"2">>, Pow10Text(MASS_TOP_DIGITS - 1),
     [Pow10Text(MASS_TOP_DIGITS - 1) EXCEPT ![MASS_TOP_DIGITS] = "1"]}
\* the positions asked of the slider (QSlider clamps them)
SliderRequests == {-1, 0, 1, 600, 999, 1000}
\* the rest masses (kg) handed to the calculator on its own
CalcMasses == {RInt(1), mass_lbs_to_kg(RInt(1)), mass_lbs_to_kg(RPow10(12))}

vars == <<slider, mass_input, mass_error_label, mass_kg_label, slider_label,
          info_label, plots, clocks, last_call, unhandled, returned, launcher, calc>>

host_vars == <<slider, mass_input, mass_error_label, mass_kg_label, slider_label,
               info_label, plots, clocks, last_call, unhandled, returned, launcher>>

\* the widgets update_plots writes
Widgets ==
    [mass_kg_label |-> mass_kg_label, clocks |-> clocks, slider_label |-> slider_label,
     plots |-> plots, info_label |-> info_label, last_call |-> last_call,
     raised |-> "none"]

SetWidgets(u) ==
    /\ mass_kg_label' = u.mass_kg_label
    /\ clocks' = u.clocks
    /\ slider_label' = u.slider_label
    /\ plots' = u.plots
    /\ info_label' = u.info_label
    /\ last_call' = u.last_call

\* the widgets as setup_ui leaves them, before __init__ calls update_plots
NewWidgets ==
    [mass_kg_label |-> RRat(454, 1000),
     clocks |-> NewClocks,
     slider_label |-> NotRendered,
     plots |-> NotRendered,
     info_label |-> NotRendered,
     last_call |-> [velocity_ratio |-> RInt(0), rest_mass |-> RInt(0)],
     raised |-> "none"]

InitialMassText == <<"1", ".", "0">>

(***************************************************************************)
(* The launcher (src/run_spacetime_visualizer.py) and the construction of  *)
(* the window it starts (SpaceTimeVisualizer.__init__ and setup_ui).  The  *)
(* construction is the list of its steps that create a widget, set a       *)
(* value, connect a signal or start the timer, in the order of the source. *)
(***************************************************************************)
\* a variant that connects textChanged before it sets the text
create_mass_input_connect_first ==
    <<"QLineEdit", "textChanged.connect", "setText", "mass_kg_label", "mass_error_label">>

create_mass_input ==
    <<"QLineEdit", "setText", "textChanged.connect", "mass_kg_label", "mass_error_label">>

\* create_clocks makes the TimeDilationClocks, whose __init__ starts the timer
create_clocks == <<"TimeDilationClocks", "timeout.connect", "timer.start">>

create_velocity_slider == <<"slider_label", "QSlider", "setValue", "valueChanged.connect">>

PlotItems == {"direction_arrow", "time_marker", "spacetime_point", "lorentz_marker"}

ConstructionSteps ==
    <<"PlotManager">> \o create_mass_input \o <<"info_label">> \o create_clocks
        \o create_velocity_slider \o <<"create_plots", "update_plots">>

Connections == {"textChanged.connect", "timeout.connect", "valueChanged.connect"}

\* what exists once the construction is through
AllBuilt ==
    ({ConstructionSteps[i] : i \in 1..Len(ConstructionSteps)}
        \ (Connections \cup {"setText", "setValue", "timer.start", "create_plots", "update_plots"}))
    \cup PlotItems

\* main() before its first statement.  pc is the statement to run next,
\* step the construction step to run next, early the handlers that ran
\* during the construction, attempts the times the try block was entered,
\* reported the error lines logged, retval what main returns and status the
\* exit status of the process (-1: none yet)
NotLaunched ==
    [pc |-> "try", step |-> 1, built |-> {}, connected |-> {}, timer |-> FALSE,
     updated |-> FALSE, early |-> {}, attempts |-> 0, reported |-> 0,
     traceback |-> FALSE, raised |-> "none", retval |-> -1, status |-> -1]

\* main() inside app.exec_(), the window built and shown
Launched ==
    [NotLaunched EXCEPT !.pc = "exec_", !.step = Len(ConstructionSteps) + 1,
                        !.built = AllBuilt, !.connected = Connections, !.timer = TRUE,
                        !.updated = TRUE, !.attempts = 1]

\* the statements of the try block
TryBlock == {"import src", "import PyQt5", "QApplication", "SpaceTimeVisualizer", "show", "exec_"}

\* a variant of the handlers that returns 0
except_handler_returning_zero(kind) ==
    [reported |-> 2, traceback |-> kind # "ImportError", retval |-> 0]

\* except ImportError / except Exception: two logger.error lines, the
\* traceback for the latter, return 1
except_handler(kind) ==
    [reported |-> 2, traceback |-> kind # "ImportError", retval |-> 1]

\* a call sequence on the calculator for slider position n and rest mass m:
\* pc names the method called next, the other fields hold what the methods
\* returned, and prev_gamma what gamma returned for position n - 1
CalcStart(n, m, prev_gamma) ==
    [pc |-> "gamma", n |-> n, m |-> m, prev_gamma |-> prev_gamma,
     gamma_val |-> NaN, time_dilation_val |-> NaN,
     energies |-> [rest_energy |-> NaN, total_energy |-> NaN, kinetic_energy |-> NaN],
     components |-> [time_component |-> NaN, space_component |-> NaN],
     angle |-> [x |-> NaN, y |-> NaN],
     spacetime_point |-> <<NaN, NaN>>]

CalcIdle == [CalcStart(0, RInt(1), NaN) EXCEPT !.pc = "idle"]

\* the window after SpaceTimeVisualizer.__init__: setup_ui, then update_plots
HostInit ==
    \E u \in {update_plots(NewWidgets, SLIDER_MIN, InitialMassText)} :
        /\ slider = SLIDER_MIN
        /\ mass_input = InitialMassText
        /\ mass_error_label = ""
        /\ mass_kg_label = u.mass_kg_label
        /\ clocks = u.clocks
        /\ slider_label = u.slider_label
        /\ plots = u.plots
        /\ info_label = u.info_label
        /\ last_call = u.last_call
        /\ unhandled = u.raised
        /\ returned = "none"
        /\ launcher = Launched

Init == HostInit /\ calc = CalcIdle

\* slider.valueChanged -> update_plots (emitted only when the value changes)
SliderMove(p) ==
    /\ launcher.pc = "exec_"
    /\ SliderClamp(p) # slider
    /\ slider' = SliderClamp(p)
    /\ \E u \in {update_plots(Widgets, SliderClamp(p), mass_input)} :
          /\ SetWidgets(u)
          /\ unhandled' = IF u.raised # "none" THEN u.raised ELSE unhandled
    /\ UNCHANGED <<mass_input, mass_error_label, returned, launcher, calc>>

\* mass_input.textChanged -> validate_mass_input
MassTextChanged(text) ==
    /\ launcher.pc = "exec_"
    /\ text # mass_input
    /\ ValidatorPermits(text)
    /\ mass_input' = text
    /\ \E v \in {validate_mass_input(Widgets, mass_error_label, slider, text)} :
          /\ mass_error_label' = v.mass_error_label
          /\ returned' = v.returned
          /\ SetWidgets(v.w)
          /\ unhandled' = IF v.raised # "none" THEN v.raised ELSE unhandled
    /\ UNCHANGED <<slider, launcher, calc>>

TypeChar(c) == Len(mass_input) < MaxLen /\ MassTextChanged(Append(mass_input, c))

Backspace ==
    /\ mass_input # << >>
    /\ MassTextChanged(SubSeq(mass_input, 1, Len(mass_input) - 1))

Paste(text) == MassTextChanged(text)

\* timer.timeout -> update_clocks, every 50 ms, delivered by the event loop
Tick ==
    /\ launcher.pc = "exec_"
    /\ launcher.timer
    /\ RLess(clocks.elapsed_time, RRat(5 * MaxTicks, 100))
    /\ clocks' = update_clocks(clocks)
    /\ UNCHANGED <<slider, mass_input, mass_error_label, mass_kg_label, slider_label,
                   info_label, plots, last_call, unhandled, returned, launcher, calc>>

Next ==
    \/ \E p \in SliderRequests : SliderMove(p)
    \/ \E c \in MassChars : TypeChar(c)
    \/ Backspace
    \/ \E t \in PastedTexts : Paste(t)
    \/ Tick

Spec == Init /\ [][Next]_vars

(***************************************************************************)
(* The calculator on its own: every method of RelativisticCalculator that  *)
(* the window uses, and PlotManager.update_plots, called for each slider   *)
(* position in turn and each of the rest masses CalcMasses.                *)
(***************************************************************************)
CalcInit == HostInit /\ calc \in {CalcStart(SLIDER_MIN, m, NaN) : m \in CalcMasses}

CalcGamma ==
    /\ calc.pc = "gamma"
    /\ calc' = [calc EXCEPT !.gamma_val = gamma(VelocityOf(calc.n)),
                            !.pc = "time_dilation"]
    /\ UNCHANGED host_vars

CalcTimeDilation ==
    /\ calc.pc = "time_dilation"
    /\ calc' = [calc EXCEPT !.time_dilation_val = time_dilation(VelocityOf(calc.n)),
                            !.pc = "energy_calculations"]
    /\ UNCHANGED host_vars

CalcEnergy ==
    /\ calc.pc = "energy_calculations"
    /\ calc' = [calc EXCEPT !.energies = energy_calculations(calc.m, VelocityOf(calc.n)),
                            !.pc = "spacetime_components"]
    /\ UNCHANGED host_vars

CalcComponents ==
    /\ calc.pc = "spacetime_components"
    /\ calc' = [calc EXCEPT !.components = spacetime_components(VelocityOf(calc.n)),
                            !.pc = "direction_angle"]
    /\ UNCHANGED host_vars

CalcAngle ==
    /\ calc.pc = "direction_angle"
    /\ calc' = [calc EXCEPT !.angle = direction_angle(VelocityOf(calc.n)),
                            !.pc = "update_plots"]
    /\ UNCHANGED host_vars

CalcPlots ==
    /\ calc.pc = "update_plots"
    /\ calc' = [calc EXCEPT
                    !.spacetime_point =
                        PlotManager_update_plots(VelocityOf(calc.n), calc.m).plots.spacetime_point,
                    !.pc = "done"]
    /\ UNCHANGED host_vars

\* the slider moves on by one position
CalcNextVelocity ==
    /\ calc.pc = "done"
    /\ calc.n < SLIDER_MAX
    /\ calc' = CalcStart(calc.n + 1, calc.m, calc.gamma_val)
    /\ UNCHANGED host_vars

CalcNext ==
    \/ CalcGamma
    \/ CalcTimeDilation
    \/ CalcEnergy
    \/ CalcComponents
    \/ CalcAngle
    \/ CalcPlots
    \/ CalcNextVelocity

CalcSpec == CalcInit /\ [][CalcNext]_vars


(***************************************************************************)
(* The launcher run from its first statement: main() enters its try block, *)
(* imports, creates the QApplication, builds the window step by step,      *)
(* shows it and runs the event loop, in which the slider moves and the     *)
(* timer ticks.  Any statement of the try block may raise; the handlers    *)
(* log and return 1, and sys.exit ends the process with what main returned.*)
(***************************************************************************)
RaisedKinds == {"ImportError", "Exception"}

HostUnbuilt ==
    /\ slider = SLIDER_MIN
    /\ mass_input = << >>
    /\ mass_error_label = ""
    /\ mass_kg_label = NewWidgets.mass_kg_label
    /\ clocks = NewWidgets.clocks
    /\ slider_label = NewWidgets.slider_label
    /\ plots = NewWidgets.plots
    /\ info_label = NewWidgets.info_label
    /\ last_call = NewWidgets.last_call
    /\ unhandled = "none"
    /\ returned = "none"

LaunchInit == HostUnbuilt /\ launcher = NotLaunched /\ calc = CalcIdle

window_vars == <<slider, mass_input, mass_error_label, mass_kg_label, slider_label,
                 info_label, plots, clocks, last_call, unhandled, returned>>

\* main() enters the try block
EnterTry ==
    /\ launcher.pc = "try"
    /\ launcher' = [launcher EXCEPT !.attempts = @ + 1, !.pc = "import src"]
    /\ UNCHANGED <<window_vars, calc>>

\* from src import SpaceTimeVisualizer
ImportSrc ==
    /\ launcher.pc = "import src"
    /\ launcher' = [launcher EXCEPT !.pc = "import PyQt5"]
    /\ UNCHANGED <<window_vars, calc>>

\* from PyQt5.QtWidgets import QApplication
ImportQt ==
    /\ launcher.pc = "import PyQt5"
    /\ launcher' = [launcher EXCEPT !.pc = "QApplication"]
    /\ UNCHANGED <<window_vars, calc>>

\* app = QApplication(sys.argv)
CreateApp ==
    /\ launcher.pc = "QApplication"
    /\ launcher' = [launcher EXCEPT !.pc = "SpaceTimeVisualizer"]
    /\ UNCHANGED <<window_vars, calc>>

\* window = SpaceTimeVisualizer(): the next step of the construction.  A
\* setText or setValue that changes the value emits the signal at once, and
\* a slot connected by then runs inside the constructor, where the widgets
\* it uses are not all there yet.
Construct ==
    /\ launcher.pc = "SpaceTimeVisualizer"
    /\ \E s \in {ConstructionSteps[launcher.step]} :
       \E l \in {[launcher EXCEPT
                    !.step = @ + 1,
                    !.pc = IF launcher.step = Len(ConstructionSteps) THEN "show" ELSE @]} :
          \/ /\ s = "setText"
             /\ mass_input' = InitialMassText
             /\ IF InitialMassText # mass_input /\ "textChanged.connect" \in launcher.connected
                THEN /\ launcher' = [l EXCEPT !.early = @ \cup {"validate_mass_input"}]
                     /\ unhandled' = "AttributeError"
                ELSE /\ launcher' = l
                     /\ UNCHANGED unhandled
             /\ UNCHANGED <<slider, mass_error_label, mass_kg_label, slider_label,
                            info_label, plots, clocks, last_call, returned>>
          \/ /\ s = "setValue"
             /\ slider' = SliderClamp(0)
             /\ IF SliderClamp(0) # slider /\ "valueChanged.connect" \in launcher.connected
                THEN /\ launcher' = [l EXCEPT !.early = @ \cup {"update_plots"}]
                     /\ unhandled' = "AttributeError"
                ELSE /\ launcher' = l
                     /\ UNCHANGED unhandled
             /\ UNCHANGED <<mass_input, mass_error_label, mass_kg_label, slider_label,
                            info_label, plots, clocks, last_call, returned>>
          \/ /\ s = "update_plots"
             /\ \E u \in {update_plots(Widgets, slider, mass_input)} :
                   /\ SetWidgets(u)
                   /\ unhandled' = IF u.raised # "none" THEN u.raised ELSE unhandled
             /\ launcher' = [l EXCEPT !.updated = TRUE]
             /\ UNCHANGED <<slider, mass_input, mass_error_label, returned>>
          \/ /\ s = "timer.start"
             /\ launcher' = [l EXCEPT !.timer = TRUE]
             /\ UNCHANGED window_vars
          \/ /\ s \in Connections
             /\ launcher' = [l EXCEPT !.connected = @ \cup {s}]
             /\ UNCHANGED window_vars
          \/ /\ s = "create_plots"
             /\ launcher' = [l EXCEPT !.built = @ \cup PlotItems]
             /\ UNCHANGED window_vars
          \/ /\ s \in AllBuilt
             /\ launcher' = [l EXCEPT !.built = @ \cup {s}]
             /\ UNCHANGED window_vars
    /\ UNCHANGED calc

\* window.show()
Show ==
    /\ launcher.pc = "show"
    /\ launcher' = [launcher EXCEPT !.pc = "exec_"]
    /\ UNCHANGED <<window_vars, calc>>

\* the application quits: app.exec_() returns 0
Quit ==
    /\ launcher.pc = "exec_"
    /\ launcher' = [launcher EXCEPT !.retval = 0, !.pc = "return"]
    /\ UNCHANGED <<window_vars, calc>>

\* the statement of the try block that runs next raises
Raise(kind) ==
    /\ launcher.pc \in TryBlock
    /\ launcher' = [launcher EXCEPT !.raised = kind, !.pc = "except"]
    /\ UNCHANGED <<window_vars, calc>>

\* except ImportError / except Exception
Except ==
    /\ launcher.pc = "except"
    /\ \E h \in {except_handler(launcher.raised)} :
          launcher' = [launcher EXCEPT !.reported = @ + h.reported,
                                       !.traceback = h.traceback,
                                       !.retval = h.retval,
                                       !.pc = "return"]
    /\ UNCHANGED <<window_vars, calc>>

\* sys.exit(main())
SysExit ==
    /\ launcher.pc = "return"
    /\ launcher' = [launcher EXCEPT !.status = launcher.retval, !.pc = "exited"]
    /\ UNCHANGED <<window_vars, calc>>

LaunchNext ==
    \/ EnterTry
    \/ ImportSrc
    \/ ImportQt
    \/ CreateApp
    \/ Construct
    \/ Show
    \/ \E p \in SliderRequests : SliderMove(p)
    \/ Tick
    \/ Quit
    \/ \E kind \in RaisedKinds : Raise(kind)
    \/ Except
    \/ SysExit

LaunchSpec == LaunchInit /\ [][LaunchNext]_vars

(***************************************************************************)
(* The mass conversions on their own: for each text of ConvTexts, a mass   *)
(* the field accepts, the calls get_mass_kg and update_plots make on it,   *)
(* and the conversion back to pounds.                                      *)
(***************************************************************************)
ConvTexts ==
    {Pow10Text(k) : k \in 0..(MASS_TOP_DIGITS - 1)} \cup
    {<<"0", ".", "0", "1">>, <<"0", ".", "1">>, <<"0", ".", "4", "9">>, <<"2">>,
     <<"2", ".", "2">>, <<"9", ".", "9", "9">>, <<"4", "5", ".", "3", "6">>,
     <<"4", "1", "9", "9", "9">>, <<"4", "2", "1", "0", "0">>,
     <<"1", "2", "3", "4", "5", "6", ".", "7", "8">>,
     <<"9", "9", "9", "9", "9", "9", "9", "9", "9", "9", "9", "9", ".", "9", "9">>}

ConvStart(text) ==
    [pc |-> "float", text |-> text, mass_lbs |-> NaN, mass_kg |-> NaN,
     round_trip |-> NaN, shown_lbs |-> NaN]

ConvInit == HostInit /\ calc \in {ConvStart(text) : text \in ConvTexts}

\* mass_lbs = float(self.mass_input.text())
ConvFloat ==
    /\ calc.pc = "float"
    /\ calc' = [calc EXCEPT !.mass_lbs = PyFloat(calc.text).val, !.pc = "mass_lbs_to_kg"]
    /\ UNCHANGED host_vars

ConvToKg ==
    /\ calc.pc = "mass_lbs_to_kg"
    /\ calc' = [calc EXCEPT !.mass_kg = mass_lbs_to_kg(calc.mass_lbs),
                            !.pc = "mass_kg_to_lbs"]
    /\ UNCHANGED host_vars

ConvToLbs ==
    /\ calc.pc = "mass_kg_to_lbs"
    /\ calc' = [calc EXCEPT !.round_trip = mass_kg_to_lbs(calc.mass_kg), !.pc = "info"]
    /\ UNCHANGED host_vars

\* the pounds update_plots puts on the info panel
ConvInfo ==
    /\ calc.pc = "info"
    /\ calc' = [calc EXCEPT !.shown_lbs = InfoMassLbs(calc.mass_kg), !.pc = "done"]
    /\ UNCHANGED host_vars

ConvNext ==
    \/ ConvFloat
    \/ ConvToKg
    \/ ConvToLbs
    \/ ConvInfo

ConvSpec == ConvInit /\ [][ConvNext]_vars

(***************************************************************************)
(* The calculator called twice with the same arguments while the window    *)
(* is in use: a first round of calls of every method for slider position   *)
(* n, then possibly a round for another position, then the first round     *)
(* again, with slider moves and timer ticks at any point in between.       *)
(* host_at_first notes the slider value and the elapsed time at the first  *)
(* round; a run ends with the second round.                                *)
(***************************************************************************)
PurePositions == {SLIDER_MIN, 600, SLIDER_MAX}

\* every method of RelativisticCalculator, called for slider position n
CallAll(n) ==
    Eval(LAMBDA v :
        [gamma |-> gamma(v),
         time_dilation |-> time_dilation(v),
         energy_calculations |-> energy_calculations(RInt(n + 1), v),
         spacetime_components |-> spacetime_components(v),
         direction_angle |-> direction_angle(v),
         create_arrow_coordinates |-> create_arrow_coordinates(direction_angle(v)),
         mass_lbs_to_kg |-> mass_lbs_to_kg(RInt(n + 1)),
         mass_kg_to_lbs |-> mass_kg_to_lbs(RInt(n + 1))],
      RRat(n, 1000))

NotCalled == [gamma |-> NaN]

PureStart(n) ==
    [pc |-> "first", n |-> n, first |-> NotCalled, other |-> NotCalled,
     again |-> NotCalled, host_at_first |-> << >>]

PureInit == HostInit /\ calc \in {PureStart(n) : n \in PurePositions}

PureFirst ==
    /\ calc.pc = "first"
    /\ calc' = [calc EXCEPT !.first = CallAll(calc.n), !.pc = "between",
                            !.host_at_first = <<slider, clocks.elapsed_time>>]
    /\ UNCHANGED host_vars

PureOther ==
    /\ calc.pc = "between"
    /\ \E k \in PurePositions \ {calc.n} :
          calc' = [calc EXCEPT !.other = CallAll(k), !.pc = "again"]
    /\ UNCHANGED host_vars

PureAgain ==
    /\ calc.pc \in {"between", "again"}
    /\ calc' = [calc EXCEPT !.again = CallAll(calc.n), !.pc = "done"]
    /\ UNCHANGED host_vars

PureNext ==
    \/ PureFirst
    \/ PureOther
    \/ PureAgain
    \/ calc.pc # "done" /\ \E p \in PurePositions : SliderMove(p)
    \/ calc.pc # "done" /\ Tick

PureSpec == PureInit /\ [][PureNext]_vars

(***************************************************************************)
(* Properties of the window (Spec).                                        *)
(***************************************************************************)
\* the velocity the slider stands for
SliderVelocity == VelocityOf(slider)

\* 1 - v^2 for the velocity of the latest call
OneMinusVSquared ==
    RSub(RInt(1), RMul(last_call.velocity_ratio, last_call.velocity_ratio))

\* the step is a timer tick: only update_clocks advances elapsed_time
IsTick == clocks'.elapsed_time # clocks.elapsed_time

\* the step is an edit of the mass field, handled by validate_mass_input
IsMassEdit == mass_input' # mass_input

\* C1: the velocity ratio handed to the calculator and to the clocks is always
\* slider/1000 for a slider position in 0..999, so it lies in [0, 0.999], is
\* below 1, and 1 - v^2 is positive at every call of gamma.
C1_VelocityIsSliderOver1000 ==
    /\ slider \in 0..999
    /\ REq(last_call.velocity_ratio, RRat(slider, 1000))
    /\ RLeq(RInt(0), last_call.velocity_ratio)
    /\ RLeq(last_call.velocity_ratio, RRat(999, 1000))
    /\ RLess(last_call.velocity_ratio, RInt(1))
    /\ RSign(OneMinusVSquared) > 0
    /\ clocks.has_factor
    /\ REq(RMul(clocks.time_dilation_factor, clocks.time_dilation_factor),
           RSub(RInt(1), RMul(RRat(slider, 1000), RRat(slider, 1000))))
    /\ clocks.explanation.dilated =>
           REq(clocks.explanation.percent, RRat(slider, 10))

\* C1 witness: the slider at its top after edits of the mass and timer ticks
C1_Witness ==
    /\ slider = 999
    /\ REq(last_call.velocity_ratio, RRat(999, 1000))
    /\ mass_input = <<"2", "0">>
    /\ RLess(RInt(0), clocks.elapsed_time)

\* C2 as stated: every rest mass handed to energy_calculations is above zero.
\* The code breaks it: a "0" in the field is refused by validate_mass_input,
\* but the next slider move reads the field again and hands 0 kg on.
C2_MassAlwaysPositive == RSign(last_call.rest_mass) > 0

\* the mass field holds a number that is zero or less / holds no number
MassNonPositive(text) ==
    Eval(LAMBDA f : f.ok /\ RLeq(f.val, RInt(0)), PyFloat(text))

MassNonNumeric(text) == ~PyFloat(text).ok

\* C3 as stated: whenever the field holds a non-positive or non-numeric value,
\* the empty field included, the error label is non-empty once the edit has been
\* handled, and no exception escapes.
C3_ErrorShownAlsoWhenEmpty ==
    /\ unhandled = "none"
    /\ (MassNonPositive(mass_input) \/ MassNonNumeric(mass_input)) => mass_error_label # ""

\* C3 amended: after every edit of the mass field, a non-positive value or a
\* non-empty non-numeric text leaves the error label non-empty; an emptied field
\* leaves the label as it was; and no exception escapes the handler.
C3_ErrorShownUnlessEmpty ==
    [][IsMassEdit =>
        /\ unhandled' = "none"
        /\ MassNonPositive(mass_input') => mass_error_label' # ""
        /\ (MassNonNumeric(mass_input') /\ mass_input' # << >>) => mass_error_label' # ""
        /\ mass_input' = << >> => mass_error_label' = mass_error_label]_vars

\* C3 witness: a zero in the field, and the message for it on the label
C3_Witness ==
    /\ mass_input = <<"0">>
    /\ mass_error_label = "Mass must be greater than 0"
    /\ returned = "False"

\* C4 as stated: on every tick the stationary reading advances by 0.05 s and
\* the moving reading by 0.05 s times the factor of the current velocity, for
\* every interleaving of ticks and slider moves, so it never goes backwards.
C4_MovingAdvancesByScaledTick ==
    [][IsTick =>
        /\ REq(clocks'.stationary_clock.seconds,
               RAdd(clocks.stationary_clock.seconds, TICK))
        /\ REq(RSub(clocks'.moving_clock.seconds, RMul(TICK, time_dilation(SliderVelocity))),
               clocks.moving_clock.seconds)
        /\ RLeq(clocks.moving_clock.seconds, clocks'.moving_clock.seconds)]_vars

\* C4 amended: on every tick the stationary reading advances by 0.05 s and the
\* moving reading becomes the whole elapsed time times the factor of the current
\* velocity; it advances by 0.05 s times that factor when the reading before the
\* tick was taken at the same factor, and otherwise jumps, backwards too.
C4_MovingRederivedOnTick ==
    [][IsTick =>
        /\ REq(clocks'.stationary_clock.seconds,
               RAdd(clocks.stationary_clock.seconds, TICK))
        /\ REq(clocks'.moving_clock.seconds,
               RMul(clocks'.elapsed_time, time_dilation(SliderVelocity)))
        /\ REq(clocks.moving_clock.seconds,
               RMul(clocks.elapsed_time, time_dilation(SliderVelocity)))
             => REq(RSub(clocks'.moving_clock.seconds,
                         RMul(TICK, time_dilation(SliderVelocity))),
                    clocks.moving_clock.seconds)]_vars

\* C4 witness: two ticks, the second at 99.9% of light speed: the moving
\* clock reads less than one tick
C4_Witness ==
    /\ slider = 999
    /\ REq(clocks.elapsed_time, RRat(10, 100))
    /\ RLess(clocks.moving_clock.seconds, TICK)
    /\ RLess(RInt(0), clocks.moving_clock.seconds)

\* the clock's own factor equals time_dilation(v) at every slider position
ClockFactorAgrees ==
    \A n \in SLIDER_MIN..SLIDER_MAX :
        REq(ClockFactor(VelocityOf(n)), time_dilation(VelocityOf(n)))

\* C5: after every tick elapsed_time has grown by exactly 0.05, the stationary
\* clock shows elapsed_time and the moving clock elapsed_time x time_dilation(v)
\* for the velocity v of the slider; the clock's factor sqrt(1 - v^2) equals
\* time_dilation(v) at every slider position.
C5_ClocksFollowTimeDilation ==
    [][/\ ClockFactorAgrees
       /\ REq(clocks.time_dilation_factor, time_dilation(SliderVelocity))
       /\ IsTick =>
            /\ REq(clocks'.elapsed_time, RAdd(clocks.elapsed_time, TICK))
            /\ clocks'.stationary_clock.seconds = clocks'.elapsed_time
            /\ ~clocks'.stationary_clock.dilated
            /\ clocks'.moving_clock.dilated
            /\ REq(clocks'.moving_clock.seconds,
                   RMul(clocks'.elapsed_time, time_dilation(SliderVelocity)))]_vars

\* C5 witness: two ticks at 60% of light speed: 0.10 s against 0.08 s
C5_Witness ==
    /\ slider = 600
    /\ REq(clocks.stationary_clock.seconds, RRat(10, 100))
    /\ REq(clocks.moving_clock.seconds, RRat(8, 100))

(***************************************************************************)
(* Properties of the calculator (CalcSpec).                                *)
(***************************************************************************)
CalcVelocity == VelocityOf(calc.n)

\* 1 - v^2 at slider position n
OneMinusSquare(n) == RSub(RInt(1), RMul(VelocityOf(n), VelocityOf(n)))

\* the method that has just returned in the current call sequence
GammaReturned == calc.pc = "time_dilation"
TimeDilationReturned == calc.pc = "energy_calculations"
EnergyReturned == calc.pc = "spacetime_components"
ComponentsReturned == calc.pc = "direction_angle"
AngleReturned == calc.pc = "update_plots"
PlotsReturned == calc.pc = "done"

\* C6: for v = n/1000, n in 0..999: gamma(0) = 1, gamma(v) >= 1, gamma is
\* strictly increasing in v; 1/gamma(v)^2 = 1 - v^2 lies in (0, 1] and is
\* strictly decreasing in n.
C6_GammaIncreasingFromOne ==
    GammaReturned =>
        /\ calc.n = 0 => REq(calc.gamma_val, RInt(1))
        /\ RLeq(RInt(1), calc.gamma_val)
        /\ calc.n > 0 => RLess(calc.prev_gamma, calc.gamma_val)
        /\ REq(RDiv(RInt(1), RMul(calc.gamma_val, calc.gamma_val)), OneMinusSquare(calc.n))
        /\ RLess(RInt(0), OneMinusSquare(calc.n))
        /\ RLeq(OneMinusSquare(calc.n), RInt(1))
        /\ calc.n > 0 => RLess(OneMinusSquare(calc.n), OneMinusSquare(calc.n - 1))

\* C6 witness: gamma at the top of the slider, above gamma one position lower
C6_Witness ==
    /\ GammaReturned
    /\ calc.n = SLIDER_MAX
    /\ RLess(RInt(22), calc.gamma_val)
    /\ RLess(calc.prev_gamma, calc.gamma_val)

\* C7: time_dilation(v) = 1/gamma(v), time_dilation(0) = 1, and the result
\* lies in (0, 1].
C7_TimeDilationIsInverseGamma ==
    TimeDilationReturned =>
        /\ REq(calc.time_dilation_val, RDiv(RInt(1), calc.gamma_val))
        /\ REq(RMul(calc.time_dilation_val, calc.gamma_val), RInt(1))
        /\ calc.n = 0 => REq(calc.time_dilation_val, RInt(1))
        /\ RLess(RInt(0), calc.time_dilation_val)
        /\ RLeq(calc.time_dilation_val, RInt(1))

\* C7 witness: time_dilation(0.6) = 0.8
C7_Witness ==
    /\ TimeDilationReturned
    /\ calc.n = 600
    /\ REq(calc.time_dilation_val, RRat(8, 10))

\* 299792458^2 = 89875517873681764
C_SQUARED == RMake(ZMake(FALSE, <<1764, 7368, 5178, 9875, 8>>), Z0, N1, 1)

\* C8: energy_calculations(m, v) returns rest_energy = m x 299792458^2,
\* total_energy = rest_energy x gamma(v), kinetic_energy = total_energy -
\* rest_energy; at v = 0 total_energy = rest_energy and kinetic_energy = 0.
C8_EnergiesFromRestEnergy ==
    EnergyReturned =>
        /\ REq(calc.energies.rest_energy, RMul(calc.m, C_SQUARED))
        /\ REq(calc.energies.total_energy, RMul(calc.energies.rest_energy, calc.gamma_val))
        /\ REq(calc.energies.kinetic_energy,
               RSub(calc.energies.total_energy, calc.energies.rest_energy))
        /\ calc.n = 0 =>
             /\ REq(calc.energies.total_energy, calc.energies.rest_energy)
             /\ REq(calc.energies.kinetic_energy, RInt(0))

\* C8 witness: one pound at 60% of light speed: kinetic energy a quarter of
\* the rest energy
C8_Witness ==
    /\ EnergyReturned
    /\ calc.n = 600
    /\ calc.m = mass_lbs_to_kg(RInt(1))
    /\ REq(RMul(calc.energies.kinetic_energy, RInt(4)), calc.energies.rest_energy)

\* C9 as stated: direction_angle(0) = 0, and direction_angle(v) goes to pi/2
\* as v goes to 1 (it is past pi/4 at the top of the slider).  The code
\* returns pi/2 at v = 0 and goes to 0.
C9_AngleZeroAtRest ==
    AngleReturned =>
        /\ calc.n = 0 => IsAngleZero(calc.angle)
        /\ calc.n = SLIDER_MAX => AngleLess([x |-> RInt(1), y |-> RInt(1)], calc.angle)

\* C10: spacetime_components(v) = (1/gamma(v), v) with the squares summing to
\* 1 and both components >= 0, and the marker update_plots sets is that
\* point, on the unit quarter circle.
C10_ComponentsOnQuarterCircle ==
    /\ ComponentsReturned =>
        /\ REq(calc.components.time_component, RDiv(RInt(1), calc.gamma_val))
        /\ REq(calc.components.space_component, CalcVelocity)
        /\ REq(RAdd(RMul(calc.components.time_component, calc.components.time_component),
                    RMul(calc.components.space_component, calc.components.space_component)),
               RInt(1))
        /\ RLeq(RInt(0), calc.components.time_component)
        /\ RLeq(RInt(0), calc.components.space_component)
    /\ PlotsReturned =>
        /\ calc.spacetime_point[1] = calc.components.time_component
        /\ calc.spacetime_point[2] = calc.components.space_component
        /\ REq(RAdd(RMul(calc.spacetime_point[1], calc.spacetime_point[1]),
                    RMul(calc.spacetime_point[2], calc.spacetime_point[2])),
               RInt(1))
        /\ RLeq(RInt(0), calc.spacetime_point[1])
        /\ RLeq(RInt(0), calc.spacetime_point[2])

\* C10 witness: the marker at (0.8, 0.6) for 60% of light speed
C10_Witness ==
    /\ PlotsReturned
    /\ calc.n = 600
    /\ REq(calc.spacetime_point[1], RRat(8, 10))
    /\ REq(calc.spacetime_point[2], RRat(6, 10))

\* x is y to within one part in ten thousand
About(x, y) ==
    Eval(LAMBDA t : /\ RLeq(RMul(RSub(t[1], t[2]), RPow10(4)), t[2])
                    /\ RLeq(RMul(RSub(t[2], t[1]), RPow10(4)), t[2]),
         <<x, y>>)

\* C11: at slider position 600 (v = 0.6) gamma = 1.25 and time_dilation = 0.8,
\* and for m = 1 kg rest_energy = 299792458^2 J (about 8.9876e16), total_energy
\* = 1.25 x rest_energy (about 1.1235e17), kinetic_energy = 0.25 x rest_energy
\* (about 2.247e16).
C11_ExampleAtSixTenths ==
    calc.n = 600 =>
        /\ GammaReturned => REq(calc.gamma_val, RRat(125, 100))
        /\ TimeDilationReturned => REq(calc.time_dilation_val, RRat(8, 10))
        /\ (EnergyReturned /\ calc.m = RInt(1)) =>
             /\ REq(calc.energies.rest_energy, C_SQUARED)
             /\ About(calc.energies.rest_energy, RMul(RInt(89876), RPow10(12)))
             /\ REq(calc.energies.total_energy, RMul(RRat(125, 100), C_SQUARED))
             /\ About(calc.energies.total_energy, RMul(RInt(11235), RPow10(13)))
             /\ REq(calc.energies.kinetic_energy, RMul(RRat(25, 100), C_SQUARED))
             /\ About(calc.energies.kinetic_energy, RMul(RInt(2247), RPow10(13)))

\* C11 witness: the energies of one kilogram at slider position 600
C11_Witness ==
    /\ EnergyReturned
    /\ calc.n = 600
    /\ calc.m = RInt(1)
    /\ RLess(RPow10(17), calc.energies.total_energy)

\* C16: after an edit of the mass text, validate_mass_input returns True,
\* clears the error text and calls update_plots exactly when the text parses
\* to a mass m with 0 < m <= 1e12; otherwise it returns False, does not call
\* update_plots, and the info panel, the plot markers, the SI label and the
\* clock factor stay as they were.
C16_MassEditUpdatesExactlyWhenValid ==
    [][IsMassEdit =>
        \E f \in {PyFloat(mass_input')} :
            IF f.ok /\ RLess(RInt(0), f.val) /\ RLeq(f.val, RPow10(12))
            THEN \E c \in {Rendered(SliderVelocity, RMul(f.val, RRat(45359237, 100000000)))} :
                    /\ returned' = "True"
                    /\ mass_error_label' = ""
                    /\ last_call' = [velocity_ratio |-> c.velocity_ratio,
                                     rest_mass |-> c.mass_kg]
                    /\ info_label' = c
                    /\ plots' = c
                    /\ slider_label' = c
                    /\ mass_kg_label' = c.mass_kg
                    /\ clocks'.time_dilation_factor = ClockFactor(SliderVelocity)
            ELSE /\ returned' = "False"
                 /\ UNCHANGED <<last_call, info_label, plots, slider_label, mass_kg_label>>
                 /\ clocks'.time_dilation_factor = clocks.time_dilation_factor]_vars

\* C16 witness: the mass 1e12 itself was accepted and put on the info panel
C16_Witness ==
    /\ mass_input = Pow10Text(12)
    /\ returned = "True"
    /\ mass_error_label = ""
    /\ info_label.set
    /\ REq(info_label.mass_kg, RMul(RPow10(12), RRat(45359237, 100000000)))

\* the step ran update_plots to its end: a slider move, or a mass edit that
\* validate_mass_input accepted
UpdatePlotsCompleted == slider' # slider \/ (IsMassEdit /\ returned' = "True")

\* C18 as stated: after every completed update_plots the rest mass used for
\* the energies and shown on the info panel is the kilograms on the SI label
\* and the pounds in the mass field times 0.45359237.  The code breaks it
\* when the slider moves while the field holds no number.
C18_MassSameOnPanelLabelAndField ==
    [][UpdatePlotsCompleted =>
        \E f \in {PyFloat(mass_input')} :
            /\ info_label'.set
            /\ REq(info_label'.mass_kg, last_call'.rest_mass)
            /\ REq(info_label'.mass_kg, mass_kg_label')
            /\ f.ok
            /\ REq(info_label'.mass_kg, RMul(f.val, RRat(45359237, 100000000)))]_vars

\* C19: a timer tick changes only elapsed_time and the two clock readings,
\* leaving the slider, the time-dilation factor, the slider label, the plot
\* markers and the info panel as they were; a slider change or a mass edit
\* changes neither elapsed_time nor a clock reading.
C19_TicksAndInputsKeepApart ==
    [][/\ IsTick =>
            /\ UNCHANGED <<slider, mass_input, mass_error_label, mass_kg_label,
                           slider_label, plots, info_label, last_call>>
            /\ clocks'.time_dilation_factor = clocks.time_dilation_factor
            /\ clocks'.has_factor = clocks.has_factor
            /\ clocks'.explanation = clocks.explanation
       /\ (slider' # slider \/ IsMassEdit) =>
            /\ clocks'.elapsed_time = clocks.elapsed_time
            /\ clocks'.stationary_clock = clocks.stationary_clock
            /\ clocks'.moving_clock = clocks.moving_clock]_vars

\* C19 witness: the slider went to 600 after a tick at rest, and the moving
\* clock still reads the undilated 0.05 s of that tick
C19_Witness ==
    /\ slider = 600
    /\ REq(clocks.elapsed_time, TICK)
    /\ REq(clocks.moving_clock.seconds, TICK)
    /\ REq(clocks.time_dilation_factor, RRat(8, 10))

\* C20 as stated: at every slider position the velocity coordinate of the
\* markers on the time-dilation and the Lorentz-factor plots lies within the
\* velocities the curves of those plots cover.  The code breaks it at the
\* slider positions 991 to 999: the curves end at 99 % of c.
C20_MarkersWithinCurves ==
    \E p \in {PlotsShown(plots)} :
        /\ RLeq(CurveLeft, p.time_marker[1])
        /\ RLeq(p.time_marker[1], CurveRight)
        /\ RLeq(CurveLeft, p.lorentz_marker[1])
        /\ RLeq(p.lorentz_marker[1], CurveRight)

\* the comparison update_plots puts on the slider label at slider position n
ComparisonAt(n) == SliderLabelText(VelocityOf(n)).comparison

\* at every position of the slider: the snail at 0, light speed from 1 on
ComparisonIsSnailOrLight ==
    \A n \in SLIDER_MIN..SLIDER_MAX :
        ComparisonAt(n) = IF n = 0 THEN "slower than a snail" ELSE "approaching light speed"

\* C21: the comparison on the slider label is 'slower than a snail' at slider
\* position 0 and 'approaching light speed' at every position from 1 to 999;
\* none of the seven comparisons in between is reached from the slider.
C21_ComparisonSnailOrLightSpeed ==
    /\ ComparisonIsSnailOrLight
    /\ SliderLabelShown(slider_label).comparison = ComparisonAt(slider)
    /\ SliderLabelShown(slider_label).comparison \in
          {"slower than a snail", "approaching light speed"}
    /\ SliderLabelShown(slider_label).comparison = "slower than a snail" <=> slider = 0

\* C21 witness: the lowest position above 0, 299792.458 m/s, already shows
\* light speed
C21_Witness ==
    /\ slider = 1
    /\ REq(SliderLabelShown(slider_label).speed_ms, RRat(SPEED_OF_LIGHT, 1000))
    /\ SliderLabelShown(slider_label).comparison = "approaching light speed"

(***************************************************************************)
(* Properties of the mass conversions (ConvSpec).                          *)
(***************************************************************************)
\* C13: mass_lbs_to_kg(x) = x * 0.45359237 and mass_kg_to_lbs(y) = y * 2.20462;
\* the round trip is x * 0.45359237 * 2.20462, within a relative error of
\* 1.2e-6 of x, and is not x itself.
C13_RoundTripNearlyIdentity ==
    /\ calc.pc \in {"mass_kg_to_lbs", "info", "done"} =>
         REq(calc.mass_kg, RMul(calc.mass_lbs, RRat(45359237, 100000000)))
    /\ calc.pc \in {"info", "done"} =>
         /\ REq(calc.round_trip, RMul(calc.mass_kg, RRat(220462, 100000)))
         /\ REq(calc.round_trip,
                RMul(RMul(calc.mass_lbs, RRat(45359237, 100000000)), RRat(220462, 100000)))
         /\ RLess(RMul(RSub(calc.mass_lbs, calc.round_trip), RPow10(7)),
                  RMul(RInt(12), calc.mass_lbs))
         /\ RLess(RMul(RSub(calc.round_trip, calc.mass_lbs), RPow10(7)),
                  RMul(RInt(12), calc.mass_lbs))
         /\ ~REq(calc.round_trip, calc.mass_lbs)

\* C13 witness: 1e12 lb comes back more than a million pounds short
C13_Witness ==
    /\ calc.pc = "done"
    /\ calc.text = Pow10Text(12)
    /\ RLess(calc.round_trip, RSub(RPow10(12), RPow10(6)))

C12_FailureReportedExitOneNoRetry ==
    /\ launcher.attempts <= 1
    /\ launcher.pc \in {"return", "exited"} /\ launcher.raised # "none" =>
          /\ launcher.reported > 0
          /\ launcher.retval = 1
          /\ launcher.attempts = 1
    /\ launcher.pc = "exited" /\ launcher.raised # "none" => launcher.status = 1

\* C12 witness: an exception other than ImportError, raised while the window
\* was being built, ended the process
C12_Witness ==
    /\ launcher.pc = "exited"
    /\ launcher.raised = "Exception"
    /\ "QLineEdit" \in launcher.built
    /\ ~launcher.updated

\* C17: no slider handler, mass handler or timer tick runs before the
\* slider, the clocks and the four plot items exist and __init__ has called
\* update_plots; so the clocks have their time_dilation_factor before the
\* first tick, and every tick updates the stationary and the moving clock.
C17_NoHandlerBeforeWindowIsBuilt ==
    [][/\ launcher'.early = {}
       /\ (launcher.pc = "exec_" /\ launcher'.pc = "exec_") =>
             /\ {"QSlider", "TimeDilationClocks"} \cup PlotItems \subseteq launcher.built
             /\ launcher.updated
             /\ clocks.has_factor
       /\ IsTick =>
             /\ launcher.pc = "exec_"
             /\ clocks.has_factor
             /\ clocks'.stationary_clock = update_time(clocks'.elapsed_time, FALSE)
             /\ clocks'.moving_clock =
                   update_time(RMul(clocks'.elapsed_time, clocks.time_dilation_factor), TRUE)]_vars

\* C17 witness: the first tick of a launched window, both clocks off zero
C17_Witness ==
    /\ launcher.pc = "exec_"
    /\ launcher.attempts = 1
    /\ REq(clocks.elapsed_time, TICK)
    /\ REq(clocks.stationary_clock.seconds, TICK)
    /\ REq(clocks.moving_clock.seconds, TICK)
    /\ clocks.moving_clock.dilated

=============================================================================
